---------------------------- MODULE Spec2Model ----------------------------
(***************************************************************************)
(* A model of the SDL2_mixer binding (src/src/sdl2/mixer/mod.rs): the      *)
(* effect registration subsystem and its two trampolines, the two global   *)
(* hook slots, the Chunk / Music resource wrappers and init().             *)
(*                                                                         *)
(* The native engine is an external collaborator.  Its behaviour is        *)
(* modelled by the operators and actions whose names start with Mix_ or    *)
(* Engine; everything else is a translation of the Rust code.              *)
(***************************************************************************)
EXTENDS Integers, Sequences, FiniteSets, TLC

VARIABLES
    \* ---- shared -------------------------------------------------------
    errText,        \* the engine's last-error text (::get_error()), <<>> = ""
    \* ---- init() -------------------------------------------------------
    lastInit,       \* log of the last init() call
    \* ---- audio device and channels (engine state) ---------------------
    audioFormat,    \* <<format given to open_audio>>, <<>> while closed
    playing,        \* playing[ch]: the engine is playing a chunk on ch
    chanChunk,      \* chanChunk[ch]: native chunk most recently played, 0 = NULL
    \* ---- effect registration subsystem --------------------------------
    boxes,          \* boxes[tok]: the Box<CB> made by register_effect number tok,
                    \*   with what that call got and returned
    boxDrops,       \* boxDrops[tok]: how many times that Box was dropped
    effects,        \* effects[ch]: tokens the engine holds for ch, in order
    lastTick,       \* log of the last per-buffer trampoline invocation
    lastUnreg,      \* log of the last unregister_all_effects call
    invoked,        \* the tokens the per-buffer trampoline has been invoked for
    \* ---- resource wrappers --------------------------------------------
    wrappers,       \* the live Chunk / Music values
    made,           \* number of wrappers made so far
    handles,        \* native handles the engine has allocated so far
    nativeFreed,    \* nativeFreed[h]: number of Mix_FreeChunk/Music calls on h
    lastDrop,       \* log of the last wrapper destruction
    \* ---- hook slots ---------------------------------------------------
    channel_finished_callback,  \* static mut Option<fn(Channel)>
    music_finished_hook,        \* static mut Option<fn()>
    engineHook,     \* engineHook[k]: the trampoline the engine holds for slot k
    appPc,          \* where the application thread is inside set / unset
    appArg,         \* the callback the application thread is storing
    lastSet,        \* lastSet[k]: what the last completed set/unset installed
    cleared,        \* cleared[k]: unset began to clear k and no set followed
    fired,          \* fired[k]: log of the last completion event of slot k
    \* ---- channel groups (engine state) --------------------------------
    tag,            \* tag[c]: the group tag of channel c
    lastAdd,        \* log of the last Group::add_channel call
    \* ---- panning (engine state) ---------------------------------------
    panning,        \* panning[ch]: <<left, right>> of the panning effect of ch,
                    \*   <<>> when ch has none
    lastPan,        \* log of the last set_panning / unset_panning call
    \* ---- calls that can fail inside the binding -----------------------
    lastCall,       \* log of the last call of Music::from_file, set_command,
                    \*   get_chunk_decoder or get_music_decoder
    lastExit        \* how the last trampoline invocation whose application
                    \*   code panicked was left

sharedVars == <<errText>>
initVars   == <<lastInit>>
chanVars   == <<audioFormat, playing, chanChunk>>
effectVars == <<boxes, boxDrops, effects, lastTick, lastUnreg, invoked>>
resVars    == <<wrappers, made, handles, nativeFreed, lastDrop>>
hookVars   == <<channel_finished_callback, music_finished_hook, engineHook,
                appPc, appArg, lastSet, cleared, fired>>
groupVars  == <<tag, lastAdd>>
panVars    == <<panning, lastPan>>
callVars   == <<lastCall, lastExit>>
vars == <<sharedVars, initVars, chanVars, effectVars, resVars, hookVars,
          groupVars, panVars, callVars>>

None == "None"
NoLog == [op |-> "none"]

(***************************************************************************)
(* Error text.  The empty text is <<>>; a text is a sequence of pieces.    *)
(***************************************************************************)
EmptyText == <<>>
EngineText == <<"engine error">>

(***************************************************************************)
(* init(flags)                                                             *)
(***************************************************************************)
\* bitflags InitFlag, in declaration order
InitFlagOrder == <<"INIT_FLAC", "INIT_MOD", "INIT_MODPLUG", "INIT_MP3",
                   "INIT_OGG", "INIT_FLUIDSYNTH">>
InitFlag == {InitFlagOrder[i] : i \in 1..Len(InitFlagOrder)}

\* a bit of Mix_Init's return value that InitFlag does not know
UnknownBit == "UNKNOWN_BIT"

\* InitFlag::from_bits_truncate: the unknown bits are dropped
from_bits_truncate(bits) == bits \cap InitFlag

\* bitflags intersects: some flag in common
intersects(a, b) == a \cap b # {}

\* bitflags ^ : the flags set in exactly one of the two
xor(a, b) == (a \ b) \cup (b \ a)

RECURSIVE to_string_from(_, _)
to_string_from(flags, i) ==
    IF i > Len(InitFlagOrder) THEN <<>>
    ELSE (IF InitFlagOrder[i] \in flags
             THEN <<InitFlagOrder[i]>> ELSE <<>>) \o to_string_from(flags, i + 1)

\* impl ToString for InitFlag: the names of the contained flags, in order
to_string(flags) == to_string_from(flags, 1)

\* The requested sets init() is called with in the model
RequestedFlags == SUBSET {"INIT_FLAC", "INIT_MOD", "INIT_MP3"}
\* What Mix_Init may report in the model: flags that were requested, a flag
\* initialised earlier (INIT_OGG), bits InitFlag does not know
ReportedBits == SUBSET {"INIT_FLAC", "INIT_MOD", "INIT_MP3", "INIT_OGG", UnknownBit}

\* init(flags) with ret = Mix_Init's return value; engineSetsText tells
\* whether the engine left an error text of its own for this call
init(flags, ret, engineSetsText) ==
    LET return_flags == from_bits_truncate(ret)
        text0 == IF engineSetsText THEN EngineText ELSE errText
    IN  IF intersects(flags, return_flags)
        THEN /\ errText' = text0
             /\ lastInit' = [op |-> "init", flags |-> flags, ret |-> ret,
                             textBefore |-> text0, result |-> "Ok",
                             msg |-> EmptyText]
        ELSE LET un_init_flags == xor(return_flags, flags)
                 error_str == <<"Could not init: ">> \o to_string(un_init_flags)
                 text1 == IF text0 = EmptyText THEN error_str ELSE text0
             IN  /\ errText' = text1
                 /\ lastInit' = [op |-> "init", flags |-> flags, ret |-> ret,
                                 textBefore |-> text0, result |-> "Err",
                                 msg |-> text1]

Init_call ==
    /\ \E flags \in RequestedFlags, ret \in ReportedBits, t \in BOOLEAN :
          init(flags, ret, t)
    /\ UNCHANGED <<chanVars, effectVars, resVars, hookVars>>
    /\ UNCHANGED <<groupVars, panVars, callVars>>

(***************************************************************************)
(* Channels and the audio device                                           *)
(***************************************************************************)
NumChans == 1
MaxRegs == 2
MaxHandles == 1
MaxWrappers == 2

\* SDL_audio.h format codes (mod ll)
AUDIO_U8 == 8
AUDIO_S16LSB == 32784
AUDIO_F32LSB == 33056
Formats == {AUDIO_U8, AUDIO_S16LSB, AUDIO_F32LSB}
\* the format of examples/mixer_demo-effect.rs
DemoFormats == {AUDIO_S16LSB}

\* the width in bytes a format implies: its low byte is the size in bits
FormatWidth(fmt) == (fmt % 256) \div 8

\* size_of::<CB::SampleType>() of the transforms registered in the model
\* (u8 / i16 / f32)
SampleWidths == {1, 2, 4}
\* size_of::<i16>(), the SampleType of the example's Effy
DemoWidths == {2}

\* byte lengths of the raw mixing buffer
BufLens == {6, 2048}
DemoLens == {2048}

Channels == 0 .. (NumChans - 1)
ALL == -1       \* Channel::all()
POST == -2      \* Channel::post()
EffectChans == Channels \cup {POST}
\* channel numbers the application passes, one of them out of range
ChannelArgs == Channels \cup {ALL, POST, NumChans}

\* the audio device is open, with the format open_audio was given
Opened == audioFormat # <<>>
DeviceFormat == audioFormat[1]

\* the engine has this channel's effect list
ValidEffectChan(ch) ==
    \/ ch = POST
    \/ Opened /\ ch \in Channels

\* open_audio(frequency, format, channels, chunksize)
open_audio(format) ==
    /\ \E ret \in {0, -1} :
          IF ret = 0
          THEN /\ audioFormat' = (IF Opened THEN audioFormat ELSE <<format>>)
               /\ errText' = errText
          ELSE /\ audioFormat' = audioFormat
               /\ errText' = EngineText
    /\ UNCHANGED <<playing, chanChunk>>
    /\ UNCHANGED <<initVars, groupVars, panVars, callVars, effectVars, resVars, hookVars>>

(***************************************************************************)
(* Hook slots: reading side                                                *)
(***************************************************************************)
Callbacks == {"f", "g"}
Slots == {"channel", "music"}
Idle == [op |-> "idle", slot |-> None, at |-> None]

SlotVal(k) == IF k = "channel" THEN channel_finished_callback
              ELSE music_finished_hook

\* the application thread's plain write to slot k has begun and not ended
Writing(k) == appPc.slot = k /\ appPc.at = "write"

\* what a read of slot k can return: the stored value, or, when it races
\* with the write in progress, also the value being written
ReadValues(k) == IF Writing(k) THEN {SlotVal(k), appArg} ELSE {SlotVal(k)}

\* c_channel_finished_callback: match the slot { None => (), Some(cb) => cb(ch) }
\* the result is the callback that ran, None for none
c_channel_finished_callback(read) == IF read = None THEN None ELSE read

\* c_music_finished_hook: match the slot { None => (), Some(f) => f() }
c_music_finished_hook(read) == IF read = None THEN None ELSE read

Trampoline(k, read) == IF k = "channel" THEN c_channel_finished_callback(read)
                       ELSE c_music_finished_hook(read)

\* The engine raises a completion event for slot k: it calls the trampoline
\* it holds, if any, which reads the slot (read is the value it gets).
EngineEvent(k, read) ==
    LET ran == engineHook[k] # None
    IN  [op |-> "event", ran |-> ran,
         cb |-> IF ran THEN Trampoline(k, read) ELSE None,
         quiescent |-> appPc = Idle,
         expect |-> lastSet[k],
         writing |-> Writing(k),
         cleared |-> cleared[k]]

(***************************************************************************)
(* Effect registration subsystem                                           *)
(***************************************************************************)
\* (mutant) the token is only borrowed, as in effectfunc_callback_marshall:
\* nothing is dropped
effectdone_callback_marshall_borrow(drops, tok) == drops

\* (mutant) the Box is rebuilt from the token and the transform is also
\* dropped in place through the raw pointer
effectdone_callback_marshall_twice(drops, tok) == [drops EXCEPT ![tok] = @ + 2]

\* effectdone_callback_marshall: the token becomes a Box<CB> again and is
\* dropped at the end of the block
effectdone_callback_marshall(drops, tok) == [drops EXCEPT ![tok] = @ + 1]

\* the engine removes a list of effects: one done callback per effect
RECURSIVE Mix_RemoveEffects(_, _)
Mix_RemoveEffects(drops, toks) ==
    IF toks = <<>> THEN drops
    ELSE Mix_RemoveEffects(effectdone_callback_marshall(drops, Head(toks)),
                           Tail(toks))

\* the tokens attached to the channels of chs, lowest channel first
RECURSIVE TokensOf(_, _)
TokensOf(chs, c) ==
    IF c >= NumChans THEN <<>>
    ELSE (IF c \in chs THEN effects[c] ELSE <<>>) \o TokensOf(chs, c + 1)

\* The engine is done playing the channels chs (halt, reuse or end of the
\* chunk): per channel it raises the channel-finished event and removes
\* every effect of the channel.  (With no hook installed the event calls
\* nothing and the log of hook events keeps its value.)
EngineChannelsDone(chs) ==
    /\ effects' = [c \in EffectChans |-> IF c \in chs THEN <<>> ELSE effects[c]]
    /\ boxDrops' = Mix_RemoveEffects(boxDrops, TokensOf(chs, 0))
    /\ IF chs = {} \/ engineHook["channel"] = None THEN fired' = fired
       ELSE \E read \in ReadValues("channel") :
               fired' = [fired EXCEPT !["channel"] = EngineEvent("channel", read)]

\* Mix_RegisterEffect's return value: 0 when the channel has no effect list
Mix_RegisterEffect(ch) == IF ValidEffectChan(ch) THEN 1 ELSE 0

\* register_effect's result for the engine's return value
register_effect_result(ret) == IF ret = 0 THEN "Err" ELSE "Ok"

\* Channel(ch).register_effect(userdata) with size_of::<CB::SampleType>() = width
register_effect(ch, width) ==
    LET tok == Len(boxes) + 1
        ret == Mix_RegisterEffect(ch)
    IN  /\ tok <= MaxRegs
        /\ boxes' = Append(boxes, [width |-> width, ret |-> ret,
                                   result |-> register_effect_result(ret)])
        /\ boxDrops' = Append(boxDrops, 0)
        /\ effects' = IF ret # 0 THEN [effects EXCEPT ![ch] = Append(@, tok)]
                      ELSE effects
        /\ errText' = IF ret = 0 THEN EngineText ELSE errText
        /\ UNCHANGED <<lastTick, lastUnreg, invoked>>
        /\ UNCHANGED <<initVars, groupVars, panVars, callVars, chanVars, resVars, hookVars>>

\* Mix_UnregisterAllEffects's return value
Mix_UnregisterAllEffects(ch) == IF ValidEffectChan(ch) THEN 1 ELSE 0

\* (mutant) the failure test of the play / fade functions, ret == -1
unregister_all_effects_result_minus1(ret) == IF ret = -1 THEN "Err" ELSE "Ok"

\* unregister_all_effects's result for the engine's return value
unregister_all_effects_result(ret) == IF ret = 0 THEN "Err" ELSE "Ok"

\* (mutant) the engine is asked to clear the post-mix pseudo-channel
\* whatever channel the call is made on
unregister_all_effects_post(ch) ==
    LET ret == Mix_UnregisterAllEffects(POST)
        before == IF ch \in EffectChans THEN effects[ch] ELSE <<>>
        text == IF ret = 0 THEN EngineText ELSE errText
        result == unregister_all_effects_result(ret)
    IN  /\ effects' = IF ret # 0 THEN [effects EXCEPT ![POST] = <<>>] ELSE effects
        /\ boxDrops' = IF ret # 0 THEN Mix_RemoveEffects(boxDrops, effects[POST])
                       ELSE boxDrops
        /\ errText' = text
        /\ lastUnreg' = [op |-> "unregister_all_effects", ret |-> ret,
                         before |-> {before[i] : i \in 1..Len(before)},
                         unticked |-> {before[i] : i \in 1..Len(before)} \ invoked,
                         result |-> result,
                         msg |-> IF result = "Err" THEN text ELSE EmptyText]
        /\ UNCHANGED <<boxes, lastTick, invoked>>
        /\ UNCHANGED <<initVars, groupVars, panVars, callVars, chanVars, resVars, hookVars>>

\* Channel(ch).unregister_all_effects()
unregister_all_effects(ch) ==
    LET ret == Mix_UnregisterAllEffects(ch)
        before == IF ch \in EffectChans THEN effects[ch] ELSE <<>>
        text == IF ret = 0 THEN EngineText ELSE errText
        result == unregister_all_effects_result(ret)
    IN  /\ effects' = IF ret # 0 THEN [effects EXCEPT ![ch] = <<>>] ELSE effects
        /\ boxDrops' = IF ret # 0 THEN Mix_RemoveEffects(boxDrops, before)
                       ELSE boxDrops
        /\ errText' = text
        /\ lastUnreg' = [op |-> "unregister_all_effects", ret |-> ret,
                         before |-> {before[i] : i \in 1..Len(before)},
                         unticked |-> {before[i] : i \in 1..Len(before)} \ invoked,
                         result |-> result,
                         msg |-> IF result = "Err" THEN text ELSE EmptyText]
        /\ UNCHANGED <<boxes, lastTick, invoked>>
        /\ UNCHANGED <<initVars, groupVars, panVars, callVars, chanVars, resVars, hookVars>>

\* (mutant) the token is made a Box<CB> again, as in
\* effectdone_callback_marshall, and dropped when the trampoline returns
effectfunc_callback_marshall_userdata_boxed(drops, tok) ==
    [drops EXCEPT ![tok] = @ + 1]

\* effectfunc_callback_marshall: let mut cb_userdata: &mut CB = transmute(userdata):
\* the token is borrowed, nothing is dropped
effectfunc_callback_marshall_userdata(drops, tok) == drops

\* effectfunc_callback_marshall::<CB>(chan, stream, len, userdata): the token
\* is borrowed as &mut CB and the callback gets a slice of
\* len / size_of::<CB::SampleType>() elements
effectfunc_callback_marshall(tok, len) ==
    [op |-> "tick", tok |-> tok, len |-> len,
     elems |-> len \div boxes[tok].width,
     format |-> audioFormat,
     dropsBefore |-> boxDrops[tok],
     dropsAfter |-> effectfunc_callback_marshall_userdata(boxDrops, tok)[tok]]

\* One per-buffer call of the mixing thread: effect tok of a channel that is
\* playing (or of the post-mix pseudo-channel), with a buffer of len bytes,
\* a whole number of samples of the device's format.
EngineMixTick(tok, len) ==
    /\ Opened
    /\ len % FormatWidth(DeviceFormat) = 0
    /\ \E ch \in EffectChans :
          /\ \E i \in 1..Len(effects[ch]) : effects[ch][i] = tok
          /\ IF ch = POST THEN TRUE ELSE playing[ch]
    /\ lastTick' = effectfunc_callback_marshall(tok, len)
    /\ boxDrops' = effectfunc_callback_marshall_userdata(boxDrops, tok)
    /\ invoked' = invoked \cup {tok}
    /\ UNCHANGED <<boxes, effects, lastUnreg>>
    /\ UNCHANGED <<sharedVars, initVars, groupVars, panVars, callVars, chanVars, resVars, hookVars>>

(***************************************************************************)
(* Playback control                                                        *)
(***************************************************************************)
NULL == 0

\* the channel Mix_PlayChannelTimed plays on: the one asked for, or for -1
\* the first one that is not playing; -1 when there is none
Mix_PlayChannelTimed(ch) ==
    IF ~Opened THEN -1
    ELSE IF ch = ALL
         THEN IF \E c \in Channels : ~playing[c]
              THEN CHOOSE c \in Channels :
                      ~playing[c] /\ \A d \in Channels : ~playing[d] => c <= d
              ELSE -1
         ELSE IF ch \in Channels THEN ch ELSE -1

\* Channel(ch).play(chunk, loops), play_timed with ticks = -1
\* (the chunks played in the model are those whose handle is still allocated)
play(ch, chunk) ==
    LET ret == Mix_PlayChannelTimed(ch)
    IN  /\ chunk.kind = "Chunk"
        /\ nativeFreed[chunk.raw] = 0
        /\ IF ret = -1
           THEN /\ errText' = EngineText
                /\ UNCHANGED <<playing, chanChunk, effects, boxDrops, fired>>
           ELSE /\ errText' = errText
                /\ EngineChannelsDone(IF playing[ret] THEN {ret} ELSE {})
                /\ playing' = [playing EXCEPT ![ret] = TRUE]
                /\ chanChunk' = [chanChunk EXCEPT ![ret] = chunk.raw]
        /\ UNCHANGED <<audioFormat, boxes, lastTick, lastUnreg, invoked>>
        /\ UNCHANGED <<initVars, groupVars, panVars, callVars, resVars>>
        /\ UNCHANGED <<channel_finished_callback, music_finished_hook,
                       engineHook, appPc, appArg, lastSet, cleared>>

\* Channel(ch).halt(): Mix_HaltChannel stops the channel, or every channel
\* for -1; a channel that was playing is done playing
halt(ch) ==
    LET asked == IF ch = ALL THEN Channels ELSE {ch} \cap Channels
        done == {c \in asked : playing[c]}
    IN  /\ EngineChannelsDone(done)
        /\ playing' = [c \in Channels |-> IF c \in done THEN FALSE ELSE playing[c]]
        /\ UNCHANGED <<audioFormat, chanChunk, boxes, lastTick, lastUnreg, invoked>>
        /\ UNCHANGED <<sharedVars, initVars, groupVars, panVars, callVars, resVars>>
        /\ UNCHANGED <<channel_finished_callback, music_finished_hook,
                       engineHook, appPc, appArg, lastSet, cleared>>

\* The chunk on channel ch has played to its end (mixing thread)
EnginePlaybackEnds(ch) ==
    /\ playing[ch]
    /\ EngineChannelsDone({ch})
    /\ playing' = [playing EXCEPT ![ch] = FALSE]
    /\ UNCHANGED <<audioFormat, chanChunk, boxes, lastTick, lastUnreg, invoked>>
    /\ UNCHANGED <<sharedVars, initVars, groupVars, panVars, callVars, resVars>>
    /\ UNCHANGED <<channel_finished_callback, music_finished_hook,
                   engineHook, appPc, appArg, lastSet, cleared>>

(***************************************************************************)
(* Resource wrappers                                                       *)
(***************************************************************************)
\* Mix_FreeChunk(raw)
Mix_FreeChunk(freed, raw) == [freed EXCEPT ![raw] = @ + 1]

\* Mix_FreeMusic(raw)
Mix_FreeMusic(freed, raw) == [freed EXCEPT ![raw] = @ + 1]

\* (mutant) the handle is freed whatever the owned flag says
Chunk_drop_always(freed, w) == Mix_FreeChunk(freed, w.raw)

\* impl Drop for Chunk
Chunk_drop(freed, w) == IF w.owned THEN Mix_FreeChunk(freed, w.raw) ELSE freed

\* impl Drop for Music
Music_drop(freed, w) == IF w.owned THEN Mix_FreeMusic(freed, w.raw) ELSE freed

\* the value a loader builds from the raw handle the engine returned
Loaded(kind, raw, via) ==
    [id |-> made + 1, kind |-> kind, raw |-> raw, owned |-> TRUE, via |-> via]

\* A loader call: the engine returns a fresh handle, or NULL
Load(kind, via) ==
    /\ \E raw \in {NULL, handles + 1} :
          IF raw = NULL
          THEN /\ errText' = EngineText
               /\ UNCHANGED <<wrappers, made, handles>>
          ELSE /\ handles < MaxHandles
               /\ made < MaxWrappers
               /\ errText' = errText
               /\ wrappers' = wrappers \cup {Loaded(kind, raw, via)}
               /\ made' = made + 1
               /\ handles' = raw
    /\ UNCHANGED <<nativeFreed, lastDrop>>
    /\ UNCHANGED <<initVars, groupVars, panVars, callVars, chanVars, effectVars, hookVars>>

\* Chunk::from_file(path)
Chunk_from_file == Load("Chunk", "Chunk::from_file")

\* RWops::load_wav()
load_wav == Load("Chunk", "load_wav")

\* RWops::load_music()
load_music == Load("Music", "load_music")

\* Music::from_file(path)
Music_from_file == Load("Music", "Music::from_file")

\* Mix_GetChunk(ch): the chunk most recently played on ch, NULL if none
Mix_GetChunk(ch) == IF ch \in Channels THEN chanChunk[ch] ELSE NULL

\* Option<Chunk>::None
NoChunk == [kind |-> "None"]

\* (mutant) the queried chunk is wrapped as an owning Chunk
get_chunk_value_owned(raw) ==
    IF raw = NULL THEN NoChunk
    ELSE [id |-> made + 1, kind |-> "Chunk", raw |-> raw, owned |-> TRUE,
          via |-> "get_chunk"]

\* the Option<Chunk> get_chunk builds from the raw pointer
get_chunk_value(raw) ==
    IF raw = NULL THEN NoChunk
    ELSE [id |-> made + 1, kind |-> "Chunk", raw |-> raw, owned |-> FALSE,
          via |-> "get_chunk"]

\* Channel(ch).get_chunk()
get_chunk(ch) ==
    LET got == get_chunk_value(Mix_GetChunk(ch))
    IN  /\ made < MaxWrappers
        /\ IF got.kind = "None" THEN UNCHANGED <<wrappers, made>>
           ELSE /\ wrappers' = wrappers \cup {got}
                /\ made' = made + 1
        /\ UNCHANGED <<handles, nativeFreed, lastDrop>>
        /\ UNCHANGED <<sharedVars, initVars, groupVars, panVars, callVars, chanVars, effectVars, hookVars>>

\* A live wrapper goes out of scope
Drop(w) ==
    LET freed == IF w.kind = "Chunk" THEN Chunk_drop(nativeFreed, w)
                 ELSE Music_drop(nativeFreed, w)
    IN  /\ wrappers' = wrappers \ {w}
        /\ nativeFreed' = freed
        /\ lastDrop' = [op |-> "drop", kind |-> w.kind, owned |-> w.owned,
                        via |-> w.via, raw |-> w.raw,
                        before |-> nativeFreed[w.raw], after |-> freed[w.raw]]
        /\ UNCHANGED <<made, handles>>
        /\ UNCHANGED <<sharedVars, initVars, groupVars, panVars, callVars, chanVars, effectVars, hookVars>>
(***************************************************************************)
(* Hook slots: writing side.  The application thread's plain store to a    *)
(* static mut is not atomic for the mixing thread: it begins (write) and   *)
(* ends (store) in two steps.  Mix_ChannelFinished and                     *)
(* Mix_HookMusicFinished change the engine's hook under the audio lock,    *)
(* in one step.                                                            *)
(***************************************************************************)
At(op, k, at) == [op |-> op, slot |-> k, at |-> at]

\* set_channel_finished(f): channel_finished_callback = Some(f) begins
set_channel_finished_write(f) ==
    /\ appPc = Idle
    /\ appPc' = At("set", "channel", "write")
    /\ appArg' = f
    /\ cleared' = [cleared EXCEPT !["channel"] = FALSE]
    /\ UNCHANGED <<channel_finished_callback, music_finished_hook, engineHook,
                   lastSet, fired>>
    /\ UNCHANGED <<sharedVars, initVars, groupVars, panVars, callVars, chanVars, effectVars, resVars>>

\* set_channel_finished(f): the store has ended
set_channel_finished_store ==
    /\ appPc = At("set", "channel", "write")
    /\ channel_finished_callback' = appArg
    /\ appPc' = At("set", "channel", "notify")
    /\ UNCHANGED <<music_finished_hook, engineHook, appArg, lastSet, cleared, fired>>
    /\ UNCHANGED <<sharedVars, initVars, groupVars, panVars, callVars, chanVars, effectVars, resVars>>

\* (mutant) set_channel_finished returns without telling the engine
set_channel_finished_notify_skipped ==
    /\ appPc = At("set", "channel", "notify")
    /\ lastSet' = [lastSet EXCEPT !["channel"] = appArg]
    /\ appPc' = Idle
    /\ appArg' = None
    /\ UNCHANGED <<channel_finished_callback, music_finished_hook, engineHook,
                   cleared, fired>>
    /\ UNCHANGED <<sharedVars, initVars, groupVars, panVars, callVars, chanVars, effectVars, resVars>>

\* set_channel_finished(f): Mix_ChannelFinished(Some(c_channel_finished_callback))
set_channel_finished_notify ==
    /\ appPc = At("set", "channel", "notify")
    /\ engineHook' = [engineHook EXCEPT !["channel"] = "c_channel_finished_callback"]
    /\ lastSet' = [lastSet EXCEPT !["channel"] = appArg]
    /\ appPc' = Idle
    /\ appArg' = None
    /\ UNCHANGED <<channel_finished_callback, music_finished_hook, cleared, fired>>
    /\ UNCHANGED <<sharedVars, initVars, groupVars, panVars, callVars, chanVars, effectVars, resVars>>

\* (mutant) the slot is cleared while the engine still holds the trampoline
unset_channel_finished_clear_first ==
    /\ appPc = Idle
    /\ appPc' = At("unset", "channel", "write")
    /\ appArg' = None
    /\ cleared' = [cleared EXCEPT !["channel"] = TRUE]
    /\ UNCHANGED <<channel_finished_callback, music_finished_hook, engineHook,
                   lastSet, fired>>
    /\ UNCHANGED <<sharedVars, initVars, groupVars, panVars, callVars, chanVars, effectVars, resVars>>

\* unset_channel_finished(): Mix_ChannelFinished(None), then
\* channel_finished_callback = None begins
unset_channel_finished_notify ==
    /\ appPc = Idle
    /\ engineHook' = [engineHook EXCEPT !["channel"] = None]
    /\ appPc' = At("unset", "channel", "write")
    /\ appArg' = None
    /\ cleared' = [cleared EXCEPT !["channel"] = TRUE]
    /\ UNCHANGED <<channel_finished_callback, music_finished_hook, lastSet, fired>>
    /\ UNCHANGED <<sharedVars, initVars, groupVars, panVars, callVars, chanVars, effectVars, resVars>>

\* unset_channel_finished(): the store has ended
unset_channel_finished_store ==
    /\ appPc = At("unset", "channel", "write")
    /\ channel_finished_callback' = appArg
    /\ lastSet' = [lastSet EXCEPT !["channel"] = None]
    /\ appPc' = Idle
    /\ UNCHANGED <<music_finished_hook, engineHook, appArg, cleared, fired>>
    /\ UNCHANGED <<sharedVars, initVars, groupVars, panVars, callVars, chanVars, effectVars, resVars>>

\* Music::hook_finished(f): music_finished_hook = Some(f) begins
hook_finished_write(f) ==
    /\ appPc = Idle
    /\ appPc' = At("set", "music", "write")
    /\ appArg' = f
    /\ cleared' = [cleared EXCEPT !["music"] = FALSE]
    /\ UNCHANGED <<channel_finished_callback, music_finished_hook, engineHook,
                   lastSet, fired>>
    /\ UNCHANGED <<sharedVars, initVars, groupVars, panVars, callVars, chanVars, effectVars, resVars>>

\* Music::hook_finished(f): the store has ended
hook_finished_store ==
    /\ appPc = At("set", "music", "write")
    /\ music_finished_hook' = appArg
    /\ appPc' = At("set", "music", "notify")
    /\ UNCHANGED <<channel_finished_callback, engineHook, appArg, lastSet,
                   cleared, fired>>
    /\ UNCHANGED <<sharedVars, initVars, groupVars, panVars, callVars, chanVars, effectVars, resVars>>

\* Music::hook_finished(f): Mix_HookMusicFinished(Some(c_music_finished_hook))
hook_finished_notify ==
    /\ appPc = At("set", "music", "notify")
    /\ engineHook' = [engineHook EXCEPT !["music"] = "c_music_finished_hook"]
    /\ lastSet' = [lastSet EXCEPT !["music"] = appArg]
    /\ appPc' = Idle
    /\ appArg' = None
    /\ UNCHANGED <<channel_finished_callback, music_finished_hook, cleared, fired>>
    /\ UNCHANGED <<sharedVars, initVars, groupVars, panVars, callVars, chanVars, effectVars, resVars>>

\* Music::unhook_finished(): Mix_HookMusicFinished(None), then
\* music_finished_hook = None begins
unhook_finished_notify ==
    /\ appPc = Idle
    /\ engineHook' = [engineHook EXCEPT !["music"] = None]
    /\ appPc' = At("unset", "music", "write")
    /\ appArg' = None
    /\ cleared' = [cleared EXCEPT !["music"] = TRUE]
    /\ UNCHANGED <<channel_finished_callback, music_finished_hook, lastSet, fired>>
    /\ UNCHANGED <<sharedVars, initVars, groupVars, panVars, callVars, chanVars, effectVars, resVars>>

\* Music::unhook_finished(): the store has ended
unhook_finished_store ==
    /\ appPc = At("unset", "music", "write")
    /\ music_finished_hook' = appArg
    /\ lastSet' = [lastSet EXCEPT !["music"] = None]
    /\ appPc' = Idle
    /\ UNCHANGED <<channel_finished_callback, engineHook, appArg, cleared, fired>>
    /\ UNCHANGED <<sharedVars, initVars, groupVars, panVars, callVars, chanVars, effectVars, resVars>>

\* The engine raises a channel-finished event on the mixing thread
EngineChannelFinished ==
    /\ \E read \in ReadValues("channel") :
          fired' = [fired EXCEPT !["channel"] = EngineEvent("channel", read)]
    /\ UNCHANGED <<channel_finished_callback, music_finished_hook, engineHook,
                   appPc, appArg, lastSet, cleared>>
    /\ UNCHANGED <<sharedVars, initVars, groupVars, panVars, callVars, chanVars, effectVars, resVars>>

\* The engine raises a music-finished event on the mixing thread
EngineMusicFinished ==
    /\ \E read \in ReadValues("music") :
          fired' = [fired EXCEPT !["music"] = EngineEvent("music", read)]
    /\ UNCHANGED <<channel_finished_callback, music_finished_hook, engineHook,
                   appPc, appArg, lastSet, cleared>>
    /\ UNCHANGED <<sharedVars, initVars, groupVars, panVars, callVars, chanVars, effectVars, resVars>>

(***************************************************************************)
(* Channel groups.  The engine keeps one group tag per channel.            *)
(***************************************************************************)
NumGroupChans == 2
DefaultGroup == -1

\* the channels allocated when groups are exercised
GroupChans == 0..(NumGroupChans - 1)
GroupChanArgs == GroupChans \cup {ALL, NumGroupChans}
GroupTags == {DefaultGroup, 1, 2}

\* Mix_GroupChannel(which, t)'s return value: 1 when which is a channel
Mix_GroupChannel_ret(which) == IF which \in GroupChans THEN 1 ELSE 0

\* Mix_GroupChannel(which, t): channel which gets tag t, the tag it had
\* is replaced
Mix_GroupChannel(tags, which, t) ==
    IF which \in GroupChans THEN [tags EXCEPT ![which] = t] ELSE tags

\* Mix_GroupCount(t): the number of channels whose tag is t
Mix_GroupCount(tags, t) == Cardinality({c \in GroupChans : tags[c] = t})

\* Group(g).count()
count(g) == Mix_GroupCount(tag, g)

\* (mutant) the two arguments of Mix_GroupChannel are exchanged
add_channel_swapped(g, ch) ==
    /\ tag' = Mix_GroupChannel(tag, g, ch)
    /\ lastAdd' = [op |-> "add_channel", g |-> g, ch |-> ch,
                   ok |-> Mix_GroupChannel_ret(g) = 1, before |-> tag]
    /\ UNCHANGED <<sharedVars, initVars, chanVars, effectVars, resVars, hookVars>>
    /\ UNCHANGED <<panVars, callVars>>

\* Group(g).add_channel(Channel(ch))
add_channel(g, ch) ==
    /\ tag' = Mix_GroupChannel(tag, ch, g)
    /\ lastAdd' = [op |-> "add_channel", g |-> g, ch |-> ch,
                   ok |-> Mix_GroupChannel_ret(ch) = 1, before |-> tag]
    /\ UNCHANGED <<sharedVars, initVars, chanVars, effectVars, resVars, hookVars>>
    /\ UNCHANGED <<panVars, callVars>>

\* Group(g).halt(): Mix_HaltGroup stops every channel whose tag is g; a
\* channel that was playing is done playing
Group_halt(g) ==
    LET done == {c \in Channels \cap GroupChans : tag[c] = g /\ playing[c]}
    IN  /\ EngineChannelsDone(done)
        /\ playing' = [c \in Channels |-> IF c \in done THEN FALSE ELSE playing[c]]
        /\ UNCHANGED <<audioFormat, chanChunk, boxes, lastTick, lastUnreg, invoked>>
        /\ UNCHANGED <<sharedVars, initVars, resVars>>
        /\ UNCHANGED <<channel_finished_callback, music_finished_hook,
                       engineHook, appPc, appArg, lastSet, cleared>>
        /\ UNCHANGED <<groupVars, panVars, callVars>>

(***************************************************************************)
(* Panning.  The engine keeps at most one panning effect per channel.      *)
(***************************************************************************)
\* u8 volumes: silence, half, full
Volumes == {0, 128, 255}

\* the channel has no panning effect
NoPanning == <<>>

\* no set_panning / unset_panning call was made yet
NoPanLog == [op |-> "none", ch |-> ALL, result |-> "Ok", sets |-> 0,
             unsets |-> 0, changed |-> FALSE]

\* Mix_SetPanning's return value: 0 when the channel has no effect list
Mix_SetPanning_ret(ch) == IF ValidEffectChan(ch) THEN 1 ELSE 0

\* Mix_SetPanning(ch, left, right): the channel's panning effect gets these
\* volumes; full volume on both sides removes the effect
Mix_SetPanning(pan, ch, left, right) ==
    IF ~ValidEffectChan(ch) THEN pan
    ELSE IF left = 255 /\ right = 255 THEN [pan EXCEPT ![ch] = NoPanning]
    ELSE [pan EXCEPT ![ch] = <<left, right>>]

\* the Result of set_panning / unset_panning for the engine's return value
panning_result(ret) == IF ret = 0 THEN "Err" ELSE "Ok"

\* Channel(ch).set_panning(left, right)
set_panning(ch, left, right) ==
    LET ret == Mix_SetPanning_ret(ch)
        pan == Mix_SetPanning(panning, ch, left, right)
    IN  /\ panning' = pan
        /\ errText' = IF ret = 0 THEN EngineText ELSE errText
        /\ lastPan' = [op |-> "set_panning", ch |-> ch,
                       result |-> panning_result(ret),
                       sets |-> IF ret = 0 THEN 0
                                ELSE IF lastPan.ch = ch /\ lastPan.sets >= 1
                                THEN 2 ELSE 1,
                       unsets |-> 0,
                       changed |-> pan # panning]
        /\ UNCHANGED <<initVars, chanVars, effectVars, resVars, hookVars>>
        /\ UNCHANGED <<groupVars, callVars>>

\* (mutant) the arguments unset_position passes: 0, 0
unset_panning_zero(ch) ==
    LET ret == Mix_SetPanning_ret(ch)
        pan == Mix_SetPanning(panning, ch, 0, 0)
    IN  /\ panning' = pan
        /\ errText' = IF ret = 0 THEN EngineText ELSE errText
        /\ lastPan' = [op |-> "unset_panning", ch |-> ch,
                       result |-> panning_result(ret),
                       sets |-> IF ret # 0 /\ lastPan.ch = ch
                                THEN lastPan.sets ELSE 0,
                       unsets |-> IF ret = 0 THEN 0
                                  ELSE IF lastPan.ch = ch /\ lastPan.unsets >= 1
                                  THEN 2 ELSE 1,
                       changed |-> pan # panning]
        /\ UNCHANGED <<initVars, chanVars, effectVars, resVars, hookVars>>
        /\ UNCHANGED <<groupVars, callVars>>

\* Channel(ch).unset_panning(): Mix_SetPanning(ch, 255, 255)
unset_panning(ch) ==
    LET ret == Mix_SetPanning_ret(ch)
        pan == Mix_SetPanning(panning, ch, 255, 255)
    IN  /\ panning' = pan
        /\ errText' = IF ret = 0 THEN EngineText ELSE errText
        /\ lastPan' = [op |-> "unset_panning", ch |-> ch,
                       result |-> panning_result(ret),
                       sets |-> IF ret # 0 /\ lastPan.ch = ch
                                THEN lastPan.sets ELSE 0,
                       unsets |-> IF ret = 0 THEN 0
                                  ELSE IF lastPan.ch = ch /\ lastPan.unsets >= 1
                                  THEN 2 ELSE 1,
                       changed |-> pan # panning]
        /\ UNCHANGED <<initVars, chanVars, effectVars, resVars, hookVars>>
        /\ UNCHANGED <<groupVars, callVars>>

(***************************************************************************)
(* Calls whose arguments the binding converts before the engine is         *)
(* called.  A path or a command is a sequence of bytes, of three kinds:    *)
(* "a" an ASCII letter, "NUL" the zero byte, "0xFF" a byte that is not     *)
(* valid UTF-8.                                                            *)
(***************************************************************************)
MaxPathLen == 2

RECURSIVE SeqsUpTo(_, _)
SeqsUpTo(bytes, n) ==
    IF n = 0 THEN {<<>>}
    ELSE LET shorter == SeqsUpTo(bytes, n - 1)
         IN  shorter \cup {Append(q, b) : q \in shorter, b \in bytes}

\* &Path: any bytes
Paths == SeqsUpTo({"a", "NUL", "0xFF"}, MaxPathLen)
\* &str: valid UTF-8 by its type
Commands == SeqsUpTo({"a", "NUL"}, MaxPathLen)

\* Path::to_str(): Some when the path is valid UTF-8
to_str_is_some(path) == \A i \in 1..Len(path) : path[i] # "0xFF"

\* CString::new(bytes): Ok when no byte is zero
CString_new_is_ok(bytes) == \A i \in 1..Len(bytes) : bytes[i] # "NUL"

\* no call was made yet
NoCall == [op |-> "none", input |-> <<>>, outcome |-> "none"]

\* the last call returned to its caller (or none was made)
Returned == lastCall.outcome \notin {"panic", "crash"}

\* Music::from_file(path):
\* CString::new(path.to_str().unwrap()).unwrap(), then Mix_LoadMUS
Music_from_file_path(path) ==
    IF ~to_str_is_some(path) \/ ~CString_new_is_ok(path)
    THEN /\ lastCall' = [op |-> "Music::from_file", input |-> path,
                         outcome |-> "panic"]
         /\ UNCHANGED <<lastExit, errText, resVars>>
         /\ UNCHANGED <<initVars, chanVars, effectVars, hookVars, groupVars, panVars>>
    ELSE /\ \E raw \in {NULL, handles + 1} :
               IF raw = NULL
               THEN /\ errText' = EngineText
                    /\ lastCall' = [op |-> "Music::from_file", input |-> path,
                                    outcome |-> "Err"]
                    /\ UNCHANGED <<wrappers, made, handles>>
               ELSE /\ handles < MaxHandles
                    /\ made < MaxWrappers
                    /\ errText' = errText
                    /\ lastCall' = [op |-> "Music::from_file", input |-> path,
                                    outcome |-> "Ok"]
                    /\ wrappers' = wrappers \cup {Loaded("Music", raw, "Music::from_file")}
                    /\ made' = made + 1
                    /\ handles' = raw
         /\ UNCHANGED <<lastExit, nativeFreed, lastDrop>>
         /\ UNCHANGED <<initVars, chanVars, effectVars, hookVars, groupVars, panVars>>

\* Music::set_command(command):
\* CString::new(command).unwrap(), then Mix_SetMusicCMD
set_command(command) ==
    IF ~CString_new_is_ok(command)
    THEN /\ lastCall' = [op |-> "Music::set_command", input |-> command,
                         outcome |-> "panic"]
         /\ UNCHANGED <<lastExit, errText>>
         /\ UNCHANGED <<initVars, chanVars, effectVars, resVars, hookVars,
                        groupVars, panVars>>
    ELSE /\ \E ret \in {0, -1} :
               /\ errText' = IF ret = -1 THEN EngineText ELSE errText
               /\ lastCall' = [op |-> "Music::set_command", input |-> command,
                               outcome |-> IF ret = -1 THEN "Err" ELSE "Ok"]
         /\ UNCHANGED lastExit
         /\ UNCHANGED <<initVars, chanVars, effectVars, resVars, hookVars,
                        groupVars, panVars>>

\* the decoders the engine was built with
ChunkDecoders == <<"WAVE", "OGG">>
MusicDecoders == <<"WAVE", "MODPLUG">>
DecoderIndexes == -1..Len(ChunkDecoders)

\* Mix_GetChunkDecoder(index) / Mix_GetMusicDecoder(index): the name, or
\* NULL when the index is out of range
Mix_GetDecoder(names, index) ==
    IF index >= 0 /\ index < Len(names) THEN <<names[index + 1]>> ELSE <<>>

\* CStr::from_ptr(name) of a NULL name reads through a null pointer: the
\* process is killed by the fault, or the read yields some bytes
CStr_from_ptr(name) == IF name = <<>> THEN {"crash", "value"} ELSE {"value"}

\* get_chunk_decoder(index)
get_chunk_decoder(index) ==
    /\ \E out \in CStr_from_ptr(Mix_GetDecoder(ChunkDecoders, index)) :
          lastCall' = [op |-> "get_chunk_decoder", input |-> <<index>>,
                       outcome |-> out]
    /\ UNCHANGED <<lastExit, errText>>
    /\ UNCHANGED <<initVars, chanVars, effectVars, resVars, hookVars,
                   groupVars, panVars>>

\* get_music_decoder(index)
get_music_decoder(index) ==
    /\ \E out \in CStr_from_ptr(Mix_GetDecoder(MusicDecoders, index)) :
          lastCall' = [op |-> "get_music_decoder", input |-> <<index>>,
                       outcome |-> out]
    /\ UNCHANGED <<lastExit, errText>>
    /\ UNCHANGED <<initVars, chanVars, effectVars, resVars, hookVars,
                   groupVars, panVars>>

(***************************************************************************)
(* Application code that panics inside a trampoline.  The trampolines are  *)
(* plain extern "C" functions without catch_unwind: a panic leaves them by *)
(* unwinding, which for an extern "C" function is undefined; the build     *)
(* either lets the unwinding go on into the engine's frames or aborts.     *)
(***************************************************************************)
PanicLeavesExternC == {"unwinds into the engine", "process aborted"}

\* how effectfunc_callback_marshall is left: cb_userdata.callback(buf)
\* is called with nothing around it
effectfunc_callback_marshall_exit(callback) ==
    IF callback = "panics" THEN PanicLeavesExternC ELSE {"returns"}

\* how effectdone_callback_marshall is left: the Box is dropped at the end
\* of the block with nothing around it
effectdone_callback_marshall_exit(destructor) ==
    IF destructor = "panics" THEN PanicLeavesExternC ELSE {"returns"}

\* how c_channel_finished_callback is left: Some(cb) => cb(Channel(ch))
c_channel_finished_callback_exit(cb) ==
    IF cb = "panics" THEN PanicLeavesExternC ELSE {"returns"}

\* how c_music_finished_hook is left: Some(f) => f()
c_music_finished_hook_exit(f) ==
    IF f = "panics" THEN PanicLeavesExternC ELSE {"returns"}

\* no panic inside a trampoline so far
Alive == lastExit.op = "none"

\* A per-buffer call in which the transform's callback panics
EffectCallbackPanics(tok) ==
    /\ Opened
    /\ \E ch \in EffectChans :
          /\ \E i \in 1..Len(effects[ch]) : effects[ch][i] = tok
          /\ IF ch = POST THEN TRUE ELSE playing[ch]
    /\ \E e \in effectfunc_callback_marshall_exit("panics") :
          lastExit' = [op |-> "exit",
                       trampoline |-> "effectfunc_callback_marshall",
                       exit |-> e]
    /\ invoked' = invoked \cup {tok}
    /\ UNCHANGED <<boxes, boxDrops, effects, lastTick, lastUnreg, lastCall>>
    /\ UNCHANGED <<sharedVars, initVars, chanVars, resVars, hookVars,
                   groupVars, panVars>>

\* The engine removes the first effect of ch and the transform's
\* destructor panics
EffectDropPanics(ch) ==
    /\ effects[ch] # <<>>
    /\ effects' = [effects EXCEPT ![ch] = Tail(@)]
    /\ boxDrops' = effectdone_callback_marshall(boxDrops, Head(effects[ch]))
    /\ \E e \in effectdone_callback_marshall_exit("panics") :
          lastExit' = [op |-> "exit",
                       trampoline |-> "effectdone_callback_marshall",
                       exit |-> e]
    /\ UNCHANGED <<boxes, lastTick, lastUnreg, invoked, lastCall>>
    /\ UNCHANGED <<sharedVars, initVars, chanVars, resVars, hookVars,
                   groupVars, panVars>>

\* The engine raises the completion event of slot k and the installed
\* function panics
HookCallbackPanics(k) ==
    /\ appPc = Idle
    /\ engineHook[k] # None
    /\ SlotVal(k) # None
    /\ \E e \in (IF k = "channel" THEN c_channel_finished_callback_exit("panics")
                 ELSE c_music_finished_hook_exit("panics")) :
          lastExit' = [op |-> "exit", trampoline |-> engineHook[k], exit |-> e]
    /\ UNCHANGED lastCall
    /\ UNCHANGED <<sharedVars, initVars, chanVars, effectVars, resVars, hookVars,
                   groupVars, panVars>>

(***************************************************************************)
(* Specifications                                                          *)
(***************************************************************************)
Init ==
    /\ errText = EmptyText
    /\ lastInit = NoLog
    /\ audioFormat = <<>>
    /\ playing = [c \in Channels |-> FALSE]
    /\ chanChunk = [c \in Channels |-> NULL]
    /\ boxes = <<>>
    /\ boxDrops = <<>>
    /\ effects = [c \in EffectChans |-> <<>>]
    /\ lastTick = NoLog
    /\ lastUnreg = NoLog
    /\ invoked = {}
    /\ wrappers = {}
    /\ made = 0
    /\ handles = 0
    /\ nativeFreed = [h \in 1..MaxHandles |-> 0]
    /\ lastDrop = NoLog
    /\ channel_finished_callback = None
    /\ music_finished_hook = None
    /\ engineHook = [k \in Slots |-> None]
    /\ appPc = Idle
    /\ appArg = None
    /\ lastSet = [k \in Slots |-> None]
    /\ cleared = [k \in Slots |-> FALSE]
    /\ fired = [k \in Slots |-> NoLog]
    /\ tag = [c \in GroupChans |-> DefaultGroup]
    /\ lastAdd = NoLog
    /\ panning = [c \in EffectChans |-> NoPanning]
    /\ lastPan = NoPanLog
    /\ lastCall = NoCall
    /\ lastExit = NoLog

\* the effect registration subsystem with playback: the lifecycle of the
\* boxed transforms, with the example's format and sample type
Next ==
    \/ \E format \in DemoFormats : open_audio(format)
    \/ Chunk_from_file
    \/ \E ch \in Channels \cup {ALL}, chunk \in wrappers : play(ch, chunk)
    \/ \E ch \in Channels \cup {ALL, NumChans} : halt(ch)
    \/ \E g \in GroupTags : Group_halt(g)
    \/ \E ch \in Channels : EnginePlaybackEnds(ch)
    \/ \E ch \in ChannelArgs, width \in DemoWidths : register_effect(ch, width)
    \/ \E ch \in ChannelArgs : unregister_all_effects(ch)
    \/ \E tok \in 1..Len(boxes), len \in DemoLens : EngineMixTick(tok, len)

Spec == Init /\ [][Next]_vars

\* the per-buffer trampoline on the post-mix pseudo-channel, for every
\* device format, sample type and buffer length of the model
NextBuffer ==
    \/ \E format \in Formats : open_audio(format)
    \/ \E width \in SampleWidths : register_effect(POST, width)
    \/ unregister_all_effects(POST)
    \/ \E tok \in 1..Len(boxes), len \in BufLens : EngineMixTick(tok, len)

SpecBuffer == Init /\ [][NextBuffer]_vars

\* init()
NextInit == Init_call

SpecInit == Init /\ [][NextInit]_vars

\* the resource wrappers
NextResources ==
    \/ \E format \in Formats : open_audio(format)
    \/ Chunk_from_file
    \/ load_wav
    \/ load_music
    \/ Music_from_file
    \/ \E ch \in Channels \cup {ALL}, chunk \in wrappers : play(ch, chunk)
    \/ \E ch \in Channels \cup {ALL, NumChans} : get_chunk(ch)
    \/ \E w \in wrappers : Drop(w)

SpecResources == Init /\ [][NextResources]_vars

\* the hook slots
NextHooks ==
    \/ \E f \in Callbacks : set_channel_finished_write(f)
    \/ set_channel_finished_store
    \/ set_channel_finished_notify
    \/ unset_channel_finished_notify
    \/ unset_channel_finished_store
    \/ \E f \in Callbacks : hook_finished_write(f)
    \/ hook_finished_store
    \/ hook_finished_notify
    \/ unhook_finished_notify
    \/ unhook_finished_store
    \/ EngineChannelFinished
    \/ EngineMusicFinished

SpecHooks == Init /\ [][NextHooks]_vars

\* the channel groups
NextGroups ==
    \E g \in GroupTags, ch \in GroupChanArgs : add_channel(g, ch)

SpecGroups == Init /\ [][NextGroups]_vars

\* panning of the channels and of the post-mix pseudo-channel
NextPanning ==
    \/ \E format \in DemoFormats : open_audio(format)
    \/ \E ch \in ChannelArgs, left \in Volumes, right \in Volumes :
          set_panning(ch, left, right)
    \/ \E ch \in ChannelArgs : unset_panning(ch)

SpecPanning == Init /\ [][NextPanning]_vars

\* the calls that convert a path, a command or a decoder name; a call
\* that did not return is the process's last
NextCalls ==
    \/ Returned /\ \E path \in Paths : Music_from_file_path(path)
    \/ Returned /\ \E command \in Commands : set_command(command)
    \/ Returned /\ \E index \in DecoderIndexes : get_chunk_decoder(index)
    \/ Returned /\ \E index \in DecoderIndexes : get_music_decoder(index)

SpecCalls == Init /\ [][NextCalls]_vars

\* the trampolines with application code that can panic; after a panic
\* left a trampoline nothing more is modelled
NextPanics ==
    \/ Alive /\ \E format \in DemoFormats : open_audio(format)
    \/ Alive /\ \E width \in DemoWidths : register_effect(POST, width)
    \/ Alive /\ \E tok \in 1..Len(boxes), len \in DemoLens : EngineMixTick(tok, len)
    \/ Alive /\ unregister_all_effects(POST)
    \/ Alive /\ \E f \in Callbacks : set_channel_finished_write(f)
    \/ Alive /\ set_channel_finished_store
    \/ Alive /\ set_channel_finished_notify
    \/ Alive /\ \E f \in Callbacks : hook_finished_write(f)
    \/ Alive /\ hook_finished_store
    \/ Alive /\ hook_finished_notify
    \/ Alive /\ \E tok \in 1..Len(boxes) : EffectCallbackPanics(tok)
    \/ Alive /\ \E ch \in EffectChans : EffectDropPanics(ch)
    \/ Alive /\ \E k \in Slots : HookCallbackPanics(k)

SpecPanics == Init /\ [][NextPanics]_vars

(***************************************************************************)
(* Properties                                                              *)
(***************************************************************************)
Tokens == 1..Len(boxes)

\* the engine holds token tok for some channel
Attached(tok) ==
    \E ch \in EffectChans : \E i \in 1..Len(effects[ch]) : effects[ch][i] = tok

\* C1: the Box of every successful registration is dropped exactly once:
\* not at all while the engine holds its token, and once, never twice,
\* from the moment the engine has removed it (unregister_all_effects, halt,
\* reuse of the channel or the end of playback).
C1_DroppedExactlyOnce ==
    \A tok \in Tokens :
        boxes[tok].result = "Ok" =>
            boxDrops[tok] = (IF Attached(tok) THEN 0 ELSE 1)

\* two successful registrations have been removed and dropped, the channel
\* is playing again
C1_Witness ==
    /\ \E t1, t2 \in Tokens :
          /\ t1 # t2
          /\ \A t \in {t1, t2} :
                boxes[t].result = "Ok" /\ ~Attached(t) /\ boxDrops[t] = 1
    /\ \E ch \in Channels : playing[ch]

\* C2 (as claimed): after a failed register_effect the Box it made has been
\* dropped.
C2_FailedRegistrationFreed ==
    \A tok \in Tokens : boxes[tok].result = "Err" => boxDrops[tok] = 1

\* C3 (as claimed): init(F) is Ok only if every requested flag is reported;
\* a missing requested flag gives Err; and when the engine left no error
\* text the message names every requested flag that is missing.
C3_InitAllFlagsOrErr ==
    lastInit.op = "init" =>
        LET missing == lastInit.flags \ lastInit.ret
        IN  /\ lastInit.result = "Ok" => missing = {}
            /\ missing # {} => lastInit.result = "Err"
            /\ (lastInit.result = "Err" /\ lastInit.textBefore = EmptyText) =>
                  \A fl \in missing :
                     \E i \in 1..Len(lastInit.msg) : lastInit.msg[i] = fl

\* C4: a completion event raised while no set / unset call is in progress
\* invokes exactly the callback of the last completed set when no unset
\* followed it, and nothing when the slot is Empty.
C4_EventInvokesLastSet ==
    \A k \in Slots :
        (fired[k].op = "event" /\ fired[k].quiescent) =>
            fired[k].cb = fired[k].expect

\* the channel slot's event invoked "g" and the music slot's event, after an
\* unhook, invoked nothing
C4_Witness ==
    /\ fired["channel"].op = "event"
    /\ fired["channel"].quiescent
    /\ fired["channel"].cb = "g"
    /\ fired["music"].op = "event"
    /\ fired["music"].quiescent
    /\ fired["music"].cleared
    /\ fired["music"].cb = None

\* C5: from the moment unset begins to clear the slot until a later set, no
\* completion event runs the trampoline (nothing reads the slot).
C5_NoReadOnceClearing ==
    \A k \in Slots :
        (fired[k].op = "event" /\ fired[k].cleared) => ~fired[k].ran

\* an event arrives while unset's clearing store is in progress, and the
\* trampoline is not run
C5_Witness ==
    \E k \in Slots :
        /\ fired[k].op = "event"
        /\ fired[k].cleared
        /\ fired[k].writing
        /\ ~fired[k].ran

\* C6 (as claimed): the trampoline never reads the slot while the
\* application thread's store to it is in progress.
C6_NoReadDuringWrite ==
    \A k \in Slots :
        fired[k].op = "event" => ~(fired[k].ran /\ fired[k].writing)

\* C7: a destruction frees the native handle exactly when the wrapper is
\* owned, and the destruction of a wrapper made by get_chunk frees nothing.
C7_DropFreesIffOwned ==
    lastDrop.op = "drop" =>
        /\ lastDrop.after = lastDrop.before + (IF lastDrop.owned THEN 1 ELSE 0)
        /\ lastDrop.via = "get_chunk" =>
              ~lastDrop.owned /\ lastDrop.after = lastDrop.before

\* a wrapper made by get_chunk has been destroyed while the chunk's owner
\* is alive
C7_Witness ==
    /\ lastDrop.op = "drop"
    /\ lastDrop.via = "get_chunk"
    /\ \E w \in wrappers : w.owned /\ w.raw = lastDrop.raw

\* C8: no native handle has two live owning wrappers, and none is freed
\* twice.
C8_SingleOwner ==
    \A h \in 1..MaxHandles :
        /\ Cardinality({w \in wrappers : w.raw = h /\ w.owned}) <= 1
        /\ nativeFreed[h] <= 1

\* the owner and the get_chunk view of a handle have both been destroyed
C8_Witness ==
    \E h \in 1..MaxHandles :
        /\ nativeFreed[h] = 1
        /\ {w \in wrappers : w.raw = h} = {}
        /\ lastDrop.op = "drop"
        /\ lastDrop.raw = h
        /\ lastDrop.via = "get_chunk"

\* C9 (as claimed): the transform is handed len / w elements, w the sample
\* width of the format given to open_audio.
C9_ElemsByDeviceFormat ==
    lastTick.op = "tick" =>
        lastTick.elems = lastTick.len \div FormatWidth(lastTick.format[1])

\* C10: unregister_all_effects returns Err, with the engine's error text,
\* exactly when the engine call returned 0; after an Ok return every effect
\* that was attached to the channel is detached and its Box dropped.
C10_UnregisterAll ==
    lastUnreg.op = "unregister_all_effects" =>
        /\ lastUnreg.result = "Err" <=> lastUnreg.ret = 0
        /\ lastUnreg.result = "Err" => lastUnreg.msg = EngineText
        /\ lastUnreg.result = "Ok" =>
              \A tok \in lastUnreg.before : ~Attached(tok) /\ boxDrops[tok] = 1

\* an Ok call removed two effects at once
C10_Witness ==
    /\ lastUnreg.op = "unregister_all_effects"
    /\ lastUnreg.result = "Ok"
    /\ Cardinality(lastUnreg.before) = 2

\* C11: when unregister_all_effects removes a registration the per-buffer
\* trampoline was never invoked for (no mixing tick between register_effect
\* and the removal), the trampoline is not invoked for it afterwards
\* either: it is never invoked for that registration.
C11_NeverInvoked ==
    (lastUnreg.op = "unregister_all_effects" /\ lastUnreg.result = "Ok") =>
        \A tok \in lastUnreg.unticked : tok \notin invoked

\* a registration on a channel was removed before any tick, while the
\* channel is playing and the trampoline runs for a later registration
C11_Witness ==
    /\ lastUnreg.op = "unregister_all_effects"
    /\ lastUnreg.result = "Ok"
    /\ lastUnreg.unticked # {}
    /\ \E ch \in Channels : playing[ch] /\ effects[ch] # <<>>
    /\ lastTick.op = "tick"
    /\ lastTick.tok \notin lastUnreg.before

\* C17: the per-buffer trampoline is only invoked for a transform that has
\* not been destroyed (its removal trampoline has not run), and the
\* invocation itself leaves the transform allocated.
C17_TickOnlyAllocated ==
    lastTick.op = "tick" =>
        /\ lastTick.dropsBefore = 0
        /\ lastTick.dropsAfter = 0
        /\ \A tok \in invoked : boxDrops[tok] = 1 => ~Attached(tok)

\* the trampoline ran for an effect of a playing channel after another
\* registration had been removed and destroyed, and later that effect was
\* removed too
C17_Witness ==
    /\ lastTick.op = "tick"
    /\ boxDrops[lastTick.tok] = 1
    /\ \E tok \in Tokens : tok < lastTick.tok /\ boxDrops[tok] = 1


\* C14: a channel has one group tag at a time.  An add_channel that the
\* engine accepted leaves the channel counted by the group it was added to
\* and by no other, in particular no longer by the group it was in; the
\* tag of every other channel is what it was.
C14_AddChannelMoves ==
    (lastAdd.op = "add_channel" /\ lastAdd.ok) =>
        LET ch == lastAdd.ch
            g == lastAdd.g
            g1 == lastAdd.before[ch]
        IN  /\ ch \in GroupChans
            /\ tag[ch] = g
            /\ \A c \in GroupChans \ {ch} : tag[c] = lastAdd.before[c]
            /\ \A t \in GroupTags :
                  count(t) = Mix_GroupCount(lastAdd.before, t)
                             + (IF t = g THEN 1 ELSE 0)
                             - (IF t = g1 THEN 1 ELSE 0)

\* channel C was in group G1 with another channel and has been added to
\* G2: G1 counts the other channel only, G2 counts C
C14_Witness ==
    /\ lastAdd.op = "add_channel"
    /\ lastAdd.ok
    /\ lastAdd.before[lastAdd.ch] \notin {DefaultGroup, lastAdd.g}
    /\ lastAdd.g # DefaultGroup
    /\ count(lastAdd.before[lastAdd.ch]) = 1
    /\ count(lastAdd.g) = 1

\* C15: after an unset_panning that returned Ok the channel has no panning
\* effect, as a channel on which panning was never set, whatever set_panning
\* calls came before; a second unset_panning changes nothing.
C15_UnsetPanning ==
    (lastPan.op = "unset_panning" /\ lastPan.result = "Ok") =>
        /\ panning[lastPan.ch] = NoPanning
        /\ lastPan.unsets >= 2 => ~lastPan.changed

\* two set_panning calls on a channel, then two unset_panning calls
C15_Witness ==
    /\ lastPan.op = "unset_panning"
    /\ lastPan.result = "Ok"
    /\ lastPan.ch \in Channels
    /\ lastPan.sets = 2
    /\ lastPan.unsets = 2


\* C16: in every step in which a playing channel stops playing
\* (Channel::halt, Group::halt or the end of playback) every effect that was
\* attached to it is removed and its Box dropped through its own token,
\* however many registrations the channel had: none stays attached and
\* none is leaked.
C16_HaltRemovesEffects ==
    [][\A ch \in Channels :
          (playing[ch] /\ ~playing'[ch]) =>
              /\ effects'[ch] = <<>>
              /\ \A i \in 1..Len(effects[ch]) :
                    /\ boxDrops[effects[ch][i]] = 0
                    /\ boxDrops'[effects[ch][i]] = 1]_vars

\* two registrations made on a channel were both destroyed when it stopped
\* playing: unregister_all_effects was never called
C16_Witness ==
    /\ lastUnreg.op = "none"
    /\ \E ch \in Channels : ~playing[ch] /\ effects[ch] = <<>>
    /\ Len(boxes) = 2
    /\ \A tok \in Tokens : boxes[tok].result = "Ok" /\ boxDrops[tok] = 1
    /\ effects[POST] = <<>>

\* C18 (as claimed): the transform is never invoked for a buffer whose byte
\* length is not a multiple of its sample width.
C18_NoTruncatedBuffer ==
    lastTick.op = "tick" =>
        lastTick.len % boxes[lastTick.tok].width = 0


\* C12 (as claimed): every call of Music::from_file, Music::set_command,
\* get_chunk_decoder and get_music_decoder returns a value to its caller,
\* whatever path, command or index it is given: none panics or crashes.
C12_MisuseReturns ==
    lastCall.op # "none" => lastCall.outcome \in {"Ok", "Err", "value"}

\* C13 (as claimed): a panic of application code inside a trampoline is
\* absorbed by the trampoline or ends the process; it never unwinds into
\* the engine.
C13_PanicContained ==
    lastExit.op = "exit" => lastExit.exit \in {"returns", "process aborted"}

==========================================================================
